---- MODULE Spec2Model ----
(***************************************************************************)
(* Sessions for Tornado (tornado/session.py): the session entity with its  *)
(* dirty flag, and the three storage engines FileSession (one shared CSV   *)
(* file), DirSession (one file per session) and MySQLSession (one table).  *)
(*                                                                         *)
(* Every request handler of Procs owns at most one session entity and runs *)
(* one call at a time; a call is a sequence of steps, one per storage      *)
(* access, so that handlers interleave and a call can fail in the middle.  *)
(* A file that is open for reading keeps the rows it had when its name is  *)
(* renamed over or removed, as an open file keeps its inode.               *)
(***************************************************************************)
EXTENDS Integers, Sequences, FiniteSets, TLC

\* ------------------------------------------------------------------------
\* Bounds of the model
\* ------------------------------------------------------------------------
MaxIds == 2          \* identifiers _generate_session_id hands out
MaxClock == 0        \* the clock reads 0..MaxClock

Procs == {"h1", "h2"}            \* request handlers
Keys == {"k"}                    \* keys of the session dictionary
Vals == {1}                      \* values of the session dictionary
Clock == 0..MaxClock

\* ------------------------------------------------------------------------
\* Python values: None, int and str, as the csv module and the age
\* conversion tell them apart
\* ------------------------------------------------------------------------
PyNone == [t |-> "NoneType", n |-> 0, s |-> ""]
PyInt(i) == [t |-> "int", n |-> i, s |-> ""]
PyStr(str) == [t |-> "str", n |-> 0, s |-> str]

\* the other values an age can be: a datetime (n its time since the epoch),
\* a timedelta (n its seconds), a function (n and s what it returns: the
\* integer n when s is "int", None when s is "NoneType") and a float
PyDatetime(epoch) == [t |-> "datetime", n |-> epoch, s |-> ""]
PyTimedelta(secs) == [t |-> "timedelta", n |-> secs, s |-> ""]
PyFunction(returns) == [t |-> "function", n |-> returns.n, s |-> returns.t]
PyFloat == [t |-> "float", n |-> 1, s |-> ""]

\* what csv.writer puts in a cell: None becomes the empty string, anything
\* else its str()
CsvCell(v) ==
    CASE v.t = "NoneType" -> ""
      [] v.t = "int" -> ToString(v.n)
      [] OTHER -> v.s

\* session identifiers are hex strings; "0" is never generated
SessionIdOf(i) == ToString(i)
AllIds == {SessionIdOf(i) : i \in 0..MaxIds}
ForeignId == SessionIdOf(0)

DefaultAge == 900
IpAddresses == {PyStr("10.0.0.1")}
UserAgents == {PyNone}
ToTimes == {PyNone, PyInt(60)}

\* the dictionaries over Keys
Dicts == UNION {[D -> Vals] : D \in SUBSET Keys}
EmptyDict == <<>>

\* ------------------------------------------------------------------------
\* BaseSession
\* ------------------------------------------------------------------------
NoSession ==
    [session_id |-> "", data |-> EmptyDict, expires |-> PyNone,
     ip_address |-> PyNone, user_agent |-> PyNone, security_model |-> <<>>,
     dirty |-> FALSE, _delete_cookie |-> FALSE, _refresh_cookie |-> FALSE]

\* _value_to_epoch_time: value seconds from now for an int, int(value)
\* seconds from now for a string (ValueError when it is not a number), its
\* own time for a datetime, now plus itself for a timedelta, what it
\* returns for a function, 900 seconds from now for anything else
ParseInt(str) ==
    IF \E i \in 0..DefaultAge : ToString(i) = str
    THEN PyInt(CHOOSE i \in 0..DefaultAge : ToString(i) = str)
    ELSE [t |-> "ValueError", n |-> 0, s |-> str]

_value_to_epoch_time(value, now) ==
    CASE value.t = "int" -> PyInt(now + value.n)
      [] value.t = "str" ->
            LET secs == ParseInt(value.s)
            IN  IF secs.t = "int" THEN PyInt(now + secs.n) ELSE secs
      [] value.t = "datetime" -> PyInt(value.n)
      [] value.t = "timedelta" -> PyInt(now + value.n)
      [] value.t = "function" -> [t |-> value.s, n |-> value.n, s |-> ""]
      [] OTHER -> PyInt(now + DefaultAge)

\* the keyword arguments of the constructor
Kwargs(has_key, session_id, data, expires, ip_address, user_agent) ==
    [has_key |-> has_key, session_id |-> session_id, data |-> data,
     expires |-> expires, ip_address |-> ip_address,
     user_agent |-> user_agent, security_model |-> <<>>]

\* a constructor that leaves a fresh session not dirty
__init__fresh_not_dirty(kw, new_id, now) ==
    IF kw.session_id # ""
    THEN [session_id |-> kw.session_id, data |-> kw.data,
          expires |-> kw.expires,
          ip_address |-> kw.ip_address, user_agent |-> kw.user_agent,
          security_model |-> kw.security_model,
          dirty |-> FALSE, _delete_cookie |-> FALSE, _refresh_cookie |-> FALSE]
    ELSE [session_id |-> new_id, data |-> EmptyDict,
          expires |-> _value_to_epoch_time(kw.expires, now),
          ip_address |-> kw.ip_address, user_agent |-> kw.user_agent,
          security_model |-> kw.security_model,
          dirty |-> FALSE, _delete_cookie |-> FALSE, _refresh_cookie |-> FALSE]

\* BaseSession.__init__: rehydrated when a session_id is given, fresh
\* otherwise
__init__(kw, new_id, now) ==
    IF kw.session_id # ""
    THEN [session_id |-> kw.session_id, data |-> kw.data,
          expires |-> kw.expires,
          ip_address |-> kw.ip_address, user_agent |-> kw.user_agent,
          security_model |-> kw.security_model,
          dirty |-> FALSE, _delete_cookie |-> FALSE, _refresh_cookie |-> FALSE]
    ELSE [session_id |-> new_id, data |-> EmptyDict,
          expires |-> _value_to_epoch_time(kw.expires, now),
          ip_address |-> kw.ip_address, user_agent |-> kw.user_agent,
          security_model |-> kw.security_model,
          dirty |-> TRUE, _delete_cookie |-> FALSE, _refresh_cookie |-> FALSE]

\* a dump that leaves expires out
Dump_without_expires(s) ==
    [has_key |-> TRUE, session_id |-> s.session_id, data |-> s.data,
     expires |-> PyNone, ip_address |-> s.ip_address,
     user_agent |-> s.user_agent, security_model |-> s.security_model]

\* serialize: the pickled, base64 encoded dump of the entity
Dump(s) ==
    [has_key |-> TRUE, session_id |-> s.session_id, data |-> s.data,
     expires |-> s.expires, ip_address |-> s.ip_address,
     user_agent |-> s.user_agent, security_model |-> s.security_model]

serialize(s) == [enc |-> "base64/pickle", payload |-> Dump(s)]

\* a string that is not a base64 encoded pickle
Garbage == [enc |-> "garbage", payload |-> Dump(NoSession)]

\* deserialize raises on a string that does not decode
Decodes(datastring) == datastring.enc = "base64/pickle"
deserialize(datastring) == datastring.payload

\* the row FileSession.save and DirSession.save write for the entity, as
\* it is found in the file
Row(s) ==
    [session_id |-> s.session_id, data |-> serialize(s),
     expires |-> CsvCell(s.expires), ip_address |-> CsvCell(s.ip_address),
     user_agent |-> CsvCell(s.user_agent)]

\* the row MySQLSession.save sends to the table
SqlRow(s) ==
    [session_id |-> s.session_id, data |-> serialize(s),
     expires |-> s.expires, ip_address |-> s.ip_address,
     user_agent |-> s.user_agent]

ForeignRow ==
    [session_id |-> ForeignId, data |-> Garbage, expires |-> "",
     ip_address |-> "", user_agent |-> ""]
ForeignSqlRow ==
    [session_id |-> ForeignId, data |-> Garbage, expires |-> PyNone,
     ip_address |-> PyNone, user_agent |-> PyNone]

\* ------------------------------------------------------------------------
\* State
\* ------------------------------------------------------------------------
VARIABLES
    engine,     \* the storage engine of the application: file, dir or mysql
    files,      \* file name -> <<>> when absent, <<rows>> when present
    table,      \* tornado_sessions: whether it exists, and its rows
    nextId,     \* the next identifier os.urandom yields
    sess,       \* handler -> its session entity, NoSession when it has none
    loaded,     \* handler -> the entity its last load returned
    op,         \* handler -> the call it is in, idle when in none
    pc,         \* handler -> its position in the call
    args,       \* handler -> the arguments of the call
    rd,         \* handler -> the file it has open for reading
    rpos,       \* handler -> the next row its reader yields
    tmp,        \* handler -> the name of its temporary file, "" when none
    found,      \* handler -> the local found of FileSession.save
    ret,        \* handler -> the outcome of its last call
    last,       \* handler -> the name of its last call
    since,      \* handler -> what its entity went through since its last save
    before      \* handler -> the stored content when save or delete began

vars == <<engine, files, table, nextId, sess, loaded, op, pc, args,
          rd, rpos, tmp, found, ret, last, since, before>>

\* file_path of FileSession, <session_id>.session of DirSession, and the
\* name tempfile.mkstemp gives a handler
FilePath == "tornado_sessions_"
SessionFile(session_id) == session_id \o ".session"
TempFile(p) == "tmp_" \o p
Names == {FilePath} \cup {SessionFile(i) : i \in AllIds} \cup {TempFile(p) : p \in Procs}

\* the arguments of load and of refresh; old_session_id keeps the identifier
\* the entity had when refresh began
NoArgs == [session_id |-> "", new_session_id |-> FALSE, save |-> FALSE,
           old_session_id |-> ""]
Outcome(kind, exc) == [kind |-> kind, exc |-> exc]

\* an open file: it follows its name until the name is renamed over or
\* removed, and keeps the rows it had from then on
NoReader == [name |-> "", live |-> FALSE, rows |-> <<>>]
Open(name) == [name |-> name, live |-> TRUE, rows |-> <<>>]
Lines(p) == IF rd[p].live THEN files[rd[p].name][1] ELSE rd[p].rows
Detach(name) ==
    [p \in Procs |->
        IF rd[p].live /\ rd[p].name = name
        THEN [name |-> name, live |-> FALSE, rows |-> files[name][1]]
        ELSE rd[p]]

\* os.rename(src, dst)
rename(src, dst) ==
    IF src = dst THEN files
    ELSE [files EXCEPT ![dst] = files[src], ![src] = <<>>]

\* the content a save or a delete of the entity is about to replace
Canonical(s) ==
    IF engine = "file" THEN files[FilePath]
    ELSE IF engine = "dir" /\ s.session_id # "" THEN files[SessionFile(s.session_id)]
    ELSE <<>>

\* the rows of a file, none when it is absent
RowsOf(name) == IF files[name] = <<>> THEN <<>> ELSE files[name][1]

\* the persisted records of an identifier
Records(session_id) ==
    CASE engine = "file" ->
            {RowsOf(FilePath)[i] : i \in
                {j \in 1..Len(RowsOf(FilePath)) :
                    RowsOf(FilePath)[j].session_id = session_id}}
      [] engine = "dir" ->
            {RowsOf(SessionFile(session_id))[i] : i \in
                1..Len(RowsOf(SessionFile(session_id)))}
      [] OTHER -> {r \in table.rows : r.session_id = session_id}

\* ------------------------------------------------------------------------
\* Calls and returns
\* ------------------------------------------------------------------------
SaveEntry ==
    CASE engine = "file" -> "fs_open" [] engine = "dir" -> "ds_mkstemp"
      [] OTHER -> "ms_show"
DeleteEntry ==
    CASE engine = "file" -> "fd_open" [] engine = "dir" -> "dd_isfile"
      [] OTHER -> "md_delete"
LoadEntry ==
    CASE engine = "file" -> "fl_open" [] engine = "dir" -> "dl_isfile"
      [] OTHER -> "ml_select"

\* what the entity went through since its last save, after a call that
\* returned: saved_io after a save that went to the storage, saved_again
\* after a save that found it saved, mutated after a change of its data
ReadCalls == {"__getitem__", "keys", "__iter__", "__len__"}
NextSince(call, kind, didio, cur) ==
    CASE call \in ReadCalls \cup {"load"} -> cur
      [] call \in {"__setitem__", "__delitem__"} ->
            IF kind = "ok" THEN "mutated" ELSE cur
      [] call = "save" /\ kind = "ok" ->
            IF didio THEN "saved_io"
            ELSE IF cur \in {"saved_io", "saved_again"} THEN "saved_again" ELSE cur
      [] call \in {"create", "refresh"} /\ kind = "ok" /\ didio -> "saved_io"
      [] OTHER -> "other"

\* the handler begins a call that takes several steps
Call(p, call, label) ==
    /\ op' = [op EXCEPT ![p] = call]
    /\ pc' = [pc EXCEPT ![p] = label]
    /\ ret' = [ret EXCEPT ![p] = Outcome("", "")]
    /\ last' = [last EXCEPT ![p] = ""]
    /\ UNCHANGED since

\* the handler moves on inside its call
Goto(p, label) ==
    /\ pc' = [pc EXCEPT ![p] = label]
    /\ UNCHANGED <<op, ret, last, since>>

\* the call returns (kind ok, None, session, value ...) or raises (kind is
\* the exception); exc names an exception that was caught on the way, didio
\* tells whether the call went to the storage
Return(p, call, kind, exc, didio) ==
    /\ op' = [op EXCEPT ![p] = "idle"]
    /\ pc' = [pc EXCEPT ![p] = "idle"]
    /\ ret' = [ret EXCEPT ![p] = Outcome(kind, exc)]
    /\ last' = [last EXCEPT ![p] = call]
    /\ since' = [since EXCEPT ![p] = NextSince(call, kind, didio, since[p])]

\* the locals of the handler's previous call are gone when it calls again
NewCall(p) ==
    /\ loaded' = [loaded EXCEPT ![p] = NoSession]
    /\ args' = [args EXCEPT ![p] = NoArgs]
    /\ before' = [before EXCEPT ![p] = <<>>]

Idle(p) == op[p] = "idle"
HasSession(p) == sess[p] # NoSession

\* the locals of a call that is over
Closed(p, readers) ==
    /\ rd' = [readers EXCEPT ![p] = NoReader]
    /\ tmp' = [tmp EXCEPT ![p] = ""]
    /\ rpos' = [rpos EXCEPT ![p] = 1]
    /\ found' = [found EXCEPT ![p] = FALSE]

\* a save that forgets self.dirty = False
Saved_still_dirty(s) == s

\* self.dirty = False, the last statement of every save()
Saved(s) == [s EXCEPT !.dirty = FALSE]

\* save() is over: back to whoever called it
AfterSave(p) ==
    /\ before' = [before EXCEPT ![p] = <<>>]
    /\ CASE op[p] = "refresh" -> Goto(p, "rf_cookie")
         [] OTHER -> Return(p, op[p], "ok", "", TRUE)

\* delete() is over: back to whoever called it
AfterDelete(p) ==
    /\ before' = [before EXCEPT ![p] = <<>>]
    /\ CASE op[p] = "refresh" -> Goto(p, "rf_genid")
         [] op[p] = "invalidate" -> Goto(p, "inv_cookie")
         [] OTHER -> Return(p, op[p], "ok", "", TRUE)

\* ------------------------------------------------------------------------
\* BaseSession: the dictionary, invalidate and refresh
\* ------------------------------------------------------------------------
\* what a call that does not reach the storage leaves alone
NoStorage == UNCHANGED <<engine, files, table, nextId, rd, rpos, tmp, found>>

\* an assignment that forgets self.dirty = True
SetItem_keeps_dirty(s, key, value) ==
    [s EXCEPT !.data = [x \in DOMAIN @ \cup {key} |-> IF x = key THEN value ELSE @[x]]]

\* self.data[key] = value; self.dirty = True
SetItem(s, key, value) ==
    [s EXCEPT !.data = [x \in DOMAIN @ \cup {key} |-> IF x = key THEN value ELSE @[x]],
              !.dirty = TRUE]

__setitem__(p, key, value) ==
    /\ Idle(p) /\ HasSession(p)
    /\ sess' = [sess EXCEPT ![p] = SetItem(@, key, value)]
    /\ Return(p, "__setitem__", "ok", "", FALSE)
    /\ NewCall(p) /\ NoStorage

\* del self.data[key]; self.dirty = True (KeyError when the key is missing)
DelItem(s, key) ==
    [s EXCEPT !.data = [x \in DOMAIN @ \ {key} |-> @[x]], !.dirty = TRUE]

__delitem__(p, key) ==
    /\ Idle(p) /\ HasSession(p)
    /\ IF key \in DOMAIN sess[p].data
       THEN /\ sess' = [sess EXCEPT ![p] = DelItem(@, key)]
            /\ Return(p, "__delitem__", "ok", "", FALSE)
       ELSE /\ UNCHANGED sess
            /\ Return(p, "__delitem__", "KeyError", "KeyError", FALSE)
    /\ NewCall(p) /\ NoStorage

\* return self.data[key]
__getitem__(p, key) ==
    /\ Idle(p) /\ HasSession(p)
    /\ IF key \in DOMAIN sess[p].data
       THEN Return(p, "__getitem__", "value", "", FALSE)
       ELSE Return(p, "__getitem__", "KeyError", "KeyError", FALSE)
    /\ UNCHANGED sess
    /\ NewCall(p) /\ NoStorage

\* keys(), __iter__() and __len__() read self.data
keys(p) ==
    /\ Idle(p) /\ HasSession(p)
    /\ Return(p, "keys", "value", "", FALSE)
    /\ UNCHANGED sess
    /\ NewCall(p) /\ NoStorage

__iter__(p) ==
    /\ Idle(p) /\ HasSession(p)
    /\ Return(p, "__iter__", "value", "", FALSE)
    /\ UNCHANGED sess
    /\ NewCall(p) /\ NoStorage

__len__(p) ==
    /\ Idle(p) /\ HasSession(p)
    /\ Return(p, "__len__", "value", "", FALSE)
    /\ UNCHANGED sess
    /\ NewCall(p) /\ NoStorage

\* the identifier os.urandom yields next
_generate_session_id == SessionIdOf(nextId)

\* the constructor of a fresh session: BaseSession.__init__ without a
\* session_id, then save() since kwargs has no session_id
Create(p, age, ip_address, user_agent, now) ==
    /\ Idle(p) /\ ~HasSession(p)
    /\ nextId <= MaxIds
    /\ nextId' = nextId + 1
    /\ loaded' = [loaded EXCEPT ![p] = NoSession]
    /\ args' = [args EXCEPT ![p] = NoArgs]
    /\ LET s == __init__(Kwargs(FALSE, "", EmptyDict, age, ip_address, user_agent),
                         _generate_session_id, now)
       IN  IF s.expires.t = "ValueError"
           THEN /\ UNCHANGED sess
                /\ before' = [before EXCEPT ![p] = <<>>]
                /\ Return(p, "create", "ValueError", "ValueError", FALSE)
           ELSE /\ sess' = [sess EXCEPT ![p] = s]
                /\ before' = [before EXCEPT ![p] = Canonical(s)]
                /\ Call(p, "create", SaveEntry)
    /\ UNCHANGED <<engine, files, table, rd, rpos, tmp, found>>

\* the handler goes on with the entity load returned
Adopt(p) ==
    /\ Idle(p)
    /\ loaded[p] # NoSession
    /\ sess' = [sess EXCEPT ![p] = loaded[p]]
    /\ last' = [last EXCEPT ![p] = "adopt"]
    /\ since' = [since EXCEPT ![p] = "other"]
    /\ NewCall(p) /\ NoStorage
    /\ UNCHANGED <<op, pc, ret>>

\* save(): nothing when the entity is not dirty
save(p) ==
    /\ Idle(p) /\ HasSession(p)
    /\ loaded' = [loaded EXCEPT ![p] = NoSession]
    /\ args' = [args EXCEPT ![p] = NoArgs]
    /\ IF ~sess[p].dirty
       THEN /\ Return(p, "save", "ok", "", FALSE)
            /\ before' = [before EXCEPT ![p] = <<>>]
       ELSE /\ Call(p, "save", SaveEntry)
            /\ before' = [before EXCEPT ![p] = Canonical(sess[p])]
    /\ UNCHANGED sess
    /\ NoStorage

\* delete()
delete(p) ==
    /\ Idle(p) /\ HasSession(p)
    /\ loaded' = [loaded EXCEPT ![p] = NoSession]
    /\ args' = [args EXCEPT ![p] = NoArgs]
    /\ before' = [before EXCEPT ![p] = Canonical(sess[p])]
    /\ Call(p, "delete", DeleteEntry)
    /\ UNCHANGED sess
    /\ NoStorage

\* the identifiers a cookie may carry: the one nobody generated, and those
\* generated so far
Cookies == {SessionIdOf(i) : i \in 0..(nextId - 1)}

\* load(session_id, location)
load(p, session_id) ==
    /\ Idle(p)
    /\ loaded' = [loaded EXCEPT ![p] = NoSession]
    /\ args' = [args EXCEPT ![p] = [NoArgs EXCEPT !.session_id = session_id]]
    /\ before' = [before EXCEPT ![p] = <<>>]
    /\ Call(p, "load", LoadEntry)
    /\ UNCHANGED sess
    /\ NoStorage

\* invalidate(): self.delete(), then self._delete_cookie = True
invalidate(p) ==
    /\ Idle(p) /\ HasSession(p)
    /\ loaded' = [loaded EXCEPT ![p] = NoSession]
    /\ args' = [args EXCEPT ![p] = NoArgs]
    /\ before' = [before EXCEPT ![p] = Canonical(sess[p])]
    /\ Call(p, "invalidate", DeleteEntry)
    /\ UNCHANGED sess
    /\ NoStorage

invalidate_cookie(p) ==
    /\ pc[p] = "inv_cookie"
    /\ sess' = [sess EXCEPT ![p]._delete_cookie = TRUE]
    /\ Return(p, "invalidate", "ok", "", TRUE)
    /\ UNCHANGED <<loaded, args, before>>
    /\ NoStorage

\* refresh(to_time, new_session_id, save): the new expires, then delete()
\* when new_session_id, else straight to the forced save or to the cookie
refresh(p, to_time, new_session_id, save_, now) ==
    /\ Idle(p) /\ HasSession(p)
    /\ new_session_id => nextId <= MaxIds
    /\ nextId' = IF new_session_id THEN nextId + 1 ELSE nextId
    /\ loaded' = [loaded EXCEPT ![p] = NoSession]
    /\ LET e == _value_to_epoch_time(to_time, now)
           s == [sess[p] EXCEPT !.expires = e]
       IN  IF e.t = "ValueError"
           THEN /\ Return(p, "refresh", "ValueError", "ValueError", FALSE)
                /\ args' = [args EXCEPT ![p] = NoArgs]
                /\ before' = [before EXCEPT ![p] = <<>>]
                /\ UNCHANGED sess
           ELSE IF new_session_id
           THEN /\ sess' = [sess EXCEPT ![p] = s]
                /\ args' = [args EXCEPT ![p] =
                              [session_id |-> _generate_session_id,
                               new_session_id |-> TRUE, save |-> save_,
                               old_session_id |-> sess[p].session_id]]
                /\ before' = [before EXCEPT ![p] = Canonical(s)]
                /\ Call(p, "refresh", DeleteEntry)
           ELSE IF save_
           THEN /\ sess' = [sess EXCEPT ![p] = [s EXCEPT !.dirty = TRUE]]
                /\ args' = [args EXCEPT ![p] = NoArgs]
                /\ before' = [before EXCEPT ![p] = Canonical(s)]
                /\ Call(p, "refresh", SaveEntry)
           ELSE /\ sess' = [sess EXCEPT ![p] = [s EXCEPT !._refresh_cookie = TRUE]]
                /\ args' = [args EXCEPT ![p] = NoArgs]
                /\ before' = [before EXCEPT ![p] = <<>>]
                /\ Return(p, "refresh", "ok", "", FALSE)
    /\ UNCHANGED <<engine, files, table, rd, rpos, tmp, found>>

\* refresh after its delete(): the new identifier (the value os.urandom
\* yields was drawn when the call began), dirty to force the save
refresh_generate(p) ==
    /\ pc[p] = "rf_genid"
    /\ LET s == [sess[p] EXCEPT !.session_id = args[p].session_id, !.dirty = TRUE]
       IN  /\ sess' = [sess EXCEPT ![p] = s]
           /\ before' = [before EXCEPT ![p] = Canonical(s)]
    /\ Goto(p, SaveEntry)
    /\ UNCHANGED <<loaded, args>>
    /\ NoStorage

\* refresh after its save(): self._refresh_cookie = True
refresh_cookie(p) ==
    /\ pc[p] = "rf_cookie"
    /\ sess' = [sess EXCEPT ![p]._refresh_cookie = TRUE]
    /\ Return(p, "refresh", "ok", "", TRUE)
    /\ UNCHANGED <<loaded, args, before>>
    /\ NoStorage

\* ------------------------------------------------------------------------
\* FileSession: one shared file
\* ------------------------------------------------------------------------
\* what a step inside a call leaves alone
Inside == UNCHANGED <<engine, nextId, loaded, args, before>>

\* a save that writes the session file in place
mkstemp_in_place(p) == FilePath

\* a mkstemp that yields the same name to every caller
mkstemp_one_name(p) == TempFile("h1")

\* tempfile.mkstemp(): the name of a new file
mkstemp(p) == TempFile(p)

\* save: open the session file for reading and a temporary file for writing
FileSession_save_open(p) ==
    /\ pc[p] = "fs_open"
    /\ files[FilePath] # <<>>
    /\ rd' = [rd EXCEPT ![p] = Open(FilePath)]
    /\ tmp' = [tmp EXCEPT ![p] = mkstemp(p)]
    /\ files' = [files EXCEPT ![mkstemp(p)] = << <<>> >>]
    /\ Goto(p, "fs_loop")
    /\ UNCHANGED <<table, sess, rpos, found>>
    /\ Inside

\* a save that copies no row but its own
FileSession_save_loop_own_row_only(p) ==
    /\ pc[p] = "fs_loop"
    /\ rpos[p] <= Len(Lines(p))
    /\ LET line == Lines(p)[rpos[p]]
       IN  IF line.session_id = sess[p].session_id
           THEN /\ files' = [files EXCEPT ![tmp[p]] = <<Append(@[1], Row(sess[p]))>>]
                /\ found' = [found EXCEPT ![p] = TRUE]
           ELSE UNCHANGED <<files, found>>
    /\ rpos' = [rpos EXCEPT ![p] = @ + 1]
    /\ Goto(p, "fs_loop")
    /\ UNCHANGED <<table, sess, rd, tmp>>
    /\ Inside

\* save: one turn of the loop, the row of the entity in place of the row
\* with its identifier, any other row as it is
FileSession_save_loop(p) ==
    /\ pc[p] = "fs_loop"
    /\ rpos[p] <= Len(Lines(p))
    /\ LET line == Lines(p)[rpos[p]]
       IN  IF line.session_id = sess[p].session_id
           THEN /\ files' = [files EXCEPT ![tmp[p]] = <<Append(@[1], Row(sess[p]))>>]
                /\ found' = [found EXCEPT ![p] = TRUE]
           ELSE /\ files' = [files EXCEPT ![tmp[p]] = <<Append(@[1], line)>>]
                /\ UNCHANGED found
    /\ rpos' = [rpos EXCEPT ![p] = @ + 1]
    /\ Goto(p, "fs_loop")
    /\ UNCHANGED <<table, sess, rd, tmp>>
    /\ Inside

\* a save that appends its row whether or not it found one
FileSession_save_append_always(p) ==
    /\ pc[p] = "fs_loop"
    /\ rpos[p] > Len(Lines(p))
    /\ files' = [files EXCEPT ![tmp[p]] = <<Append(@[1], Row(sess[p]))>>]
    /\ Goto(p, "fs_rename")
    /\ UNCHANGED <<table, sess, rd, rpos, tmp, found>>
    /\ Inside

\* save: after the loop, the row of a session not stored before
FileSession_save_append(p) ==
    /\ pc[p] = "fs_loop"
    /\ rpos[p] > Len(Lines(p))
    /\ files' = [files EXCEPT ![tmp[p]] =
                    IF found[p] THEN @ ELSE <<Append(@[1], Row(sess[p]))>>]
    /\ Goto(p, "fs_rename")
    /\ UNCHANGED <<table, sess, rd, rpos, tmp, found>>
    /\ Inside

\* save: close both files, rename the temporary file to the session file,
\* self.dirty = False
FileSession_save_rename(p) ==
    /\ pc[p] = "fs_rename"
    /\ files' = rename(tmp[p], FilePath)
    /\ Closed(p, IF tmp[p] = FilePath THEN rd ELSE Detach(FilePath))
    /\ sess' = [sess EXCEPT ![p] = Saved(@)]
    /\ AfterSave(p)
    /\ UNCHANGED <<engine, nextId, table, loaded, args>>

\* what the constructor in load makes of the decoded record
Rehydrate(kwargs) == __init__(kwargs, _generate_session_id, 0)

\* load: open the session file
FileSession_load_open(p) ==
    /\ pc[p] = "fl_open"
    /\ files[FilePath] # <<>>
    /\ rd' = [rd EXCEPT ![p] = Open(FilePath)]
    /\ Goto(p, "fl_loop")
    /\ UNCHANGED <<files, table, sess, rpos, tmp, found>>
    /\ Inside

\* load: one turn of the loop; on the row with the identifier the entity it
\* decodes to, None when it does not decode (the bare except)
FileSession_load_loop(p) ==
    /\ pc[p] = "fl_loop"
    /\ rpos[p] <= Len(Lines(p))
    /\ LET line == Lines(p)[rpos[p]]
       IN  IF line.session_id = args[p].session_id
           THEN /\ Closed(p, rd)
                /\ IF Decodes(line.data)
                   THEN /\ loaded' = [loaded EXCEPT ![p] = Rehydrate(deserialize(line.data))]
                        /\ Return(p, "load", "session", "", TRUE)
                   ELSE /\ UNCHANGED loaded
                        /\ Return(p, "load", "None", "DecodeError", TRUE)
           ELSE /\ rpos' = [rpos EXCEPT ![p] = @ + 1]
                /\ Goto(p, "fl_loop")
                /\ UNCHANGED <<rd, tmp, found, loaded>>
    /\ UNCHANGED <<engine, files, table, nextId, sess, args, before>>

\* load: no row has the identifier
FileSession_load_miss(p) ==
    /\ pc[p] = "fl_loop"
    /\ rpos[p] > Len(Lines(p))
    /\ Closed(p, rd)
    /\ Return(p, "load", "None", "", TRUE)
    /\ UNCHANGED <<files, table, sess>>
    /\ Inside

\* delete: open the session file for reading and a temporary file for writing
FileSession_delete_open(p) ==
    /\ pc[p] = "fd_open"
    /\ files[FilePath] # <<>>
    /\ rd' = [rd EXCEPT ![p] = Open(FilePath)]
    /\ tmp' = [tmp EXCEPT ![p] = mkstemp(p)]
    /\ files' = [files EXCEPT ![mkstemp(p)] = << <<>> >>]
    /\ Goto(p, "fd_loop")
    /\ UNCHANGED <<table, sess, rpos, found>>
    /\ Inside

\* a delete that copies every row
FileSession_delete_loop_keeps_row(p) ==
    /\ pc[p] = "fd_loop"
    /\ rpos[p] <= Len(Lines(p))
    /\ files' = [files EXCEPT ![tmp[p]] = <<Append(@[1], Lines(p)[rpos[p]])>>]
    /\ rpos' = [rpos EXCEPT ![p] = @ + 1]
    /\ Goto(p, "fd_loop")
    /\ UNCHANGED <<table, sess, rd, tmp, found>>
    /\ Inside

\* delete: one turn of the loop, every row but the one of the entity
FileSession_delete_loop(p) ==
    /\ pc[p] = "fd_loop"
    /\ rpos[p] <= Len(Lines(p))
    /\ LET line == Lines(p)[rpos[p]]
       IN  files' = [files EXCEPT ![tmp[p]] =
                        IF line.session_id # sess[p].session_id
                        THEN <<Append(@[1], line)>> ELSE @]
    /\ rpos' = [rpos EXCEPT ![p] = @ + 1]
    /\ Goto(p, "fd_loop")
    /\ UNCHANGED <<table, sess, rd, tmp, found>>
    /\ Inside

\* delete: after the loop, close both files and rename the temporary file
\* to the session file
FileSession_delete_rename(p) ==
    /\ pc[p] = "fd_loop"
    /\ rpos[p] > Len(Lines(p))
    /\ files' = rename(tmp[p], FilePath)
    /\ Closed(p, IF tmp[p] = FilePath THEN rd ELSE Detach(FilePath))
    /\ AfterDelete(p)
    /\ UNCHANGED <<engine, nextId, table, sess, loaded, args>>

\* ------------------------------------------------------------------------
\* DirSession: one file per session
\* ------------------------------------------------------------------------
\* save: a temporary file in the sessions directory
DirSession_save_mkstemp(p) ==
    /\ pc[p] = "ds_mkstemp"
    /\ tmp' = [tmp EXCEPT ![p] = mkstemp(p)]
    /\ files' = [files EXCEPT ![mkstemp(p)] = << <<>> >>]
    /\ Goto(p, "ds_write")
    /\ UNCHANGED <<table, sess, rd, rpos, found>>
    /\ Inside

\* a save that clears self.dirty before its rename
DirSession_save_write_clears_dirty(p) ==
    /\ pc[p] = "ds_write"
    /\ files' = [files EXCEPT ![tmp[p]] = <<Append(@[1], Row(sess[p]))>>]
    /\ sess' = [sess EXCEPT ![p] = Saved(@)]
    /\ Goto(p, "ds_rename")
    /\ UNCHANGED <<table, rd, rpos, tmp, found>>
    /\ Inside

\* save: the row of the entity into the temporary file
DirSession_save_write(p) ==
    /\ pc[p] = "ds_write"
    /\ files' = [files EXCEPT ![tmp[p]] = <<Append(@[1], Row(sess[p]))>>]
    /\ Goto(p, "ds_rename")
    /\ UNCHANGED <<table, sess, rd, rpos, tmp, found>>
    /\ Inside

\* save: close, rename to <session_id>.session, self.dirty = False
DirSession_save_rename(p) ==
    /\ pc[p] = "ds_rename"
    /\ files' = rename(tmp[p], SessionFile(sess[p].session_id))
    /\ Closed(p, Detach(SessionFile(sess[p].session_id)))
    /\ sess' = [sess EXCEPT ![p] = Saved(@)]
    /\ AfterSave(p)
    /\ UNCHANGED <<engine, nextId, table, loaded, args>>

\* load: os.path.isfile; None (the function falls off its end) when the
\* session file is not there
DirSession_load_isfile(p) ==
    /\ pc[p] = "dl_isfile"
    /\ IF files[SessionFile(args[p].session_id)] # <<>>
       THEN Goto(p, "dl_open")
       ELSE Return(p, "load", "None", "", TRUE)
    /\ UNCHANGED <<files, table, sess, rd, rpos, tmp, found>>
    /\ Inside

\* load: open the session file; IOError, caught by the bare except, when
\* it is gone by now
DirSession_load_open(p) ==
    /\ pc[p] = "dl_open"
    /\ IF files[SessionFile(args[p].session_id)] # <<>>
       THEN /\ rd' = [rd EXCEPT ![p] = Open(SessionFile(args[p].session_id))]
            /\ Goto(p, "dl_read")
       ELSE /\ UNCHANGED rd
            /\ Return(p, "load", "None", "IOError", TRUE)
    /\ UNCHANGED <<files, table, sess, rpos, tmp, found>>
    /\ Inside

\* load: the first row, and the entity it decodes to; None when the file is
\* empty or the row does not decode (the bare except)
DirSession_load_read(p) ==
    /\ pc[p] = "dl_read"
    /\ Closed(p, rd)
    /\ LET rows == Lines(p)
       IN  IF rows = <<>>
           THEN /\ UNCHANGED loaded
                /\ Return(p, "load", "None", "StopIteration", TRUE)
           ELSE IF Decodes(rows[1].data)
           THEN /\ loaded' = [loaded EXCEPT ![p] = Rehydrate(deserialize(rows[1].data))]
                /\ Return(p, "load", "session", "", TRUE)
           ELSE /\ UNCHANGED loaded
                /\ Return(p, "load", "None", "DecodeError", TRUE)
    /\ UNCHANGED <<engine, files, table, nextId, sess, args, before>>

\* delete: os.path.isfile
DirSession_delete_isfile(p) ==
    /\ pc[p] = "dd_isfile"
    /\ IF files[SessionFile(sess[p].session_id)] # <<>>
       THEN Goto(p, "dd_remove") /\ UNCHANGED before
       ELSE AfterDelete(p)
    /\ UNCHANGED <<engine, nextId, files, table, sess, loaded, args,
                   rd, rpos, tmp, found>>

\* delete: os.remove; OSError when the file is gone by now
DirSession_delete_remove(p) ==
    /\ pc[p] = "dd_remove"
    /\ IF files[SessionFile(sess[p].session_id)] # <<>>
       THEN /\ files' = [files EXCEPT ![SessionFile(sess[p].session_id)] = <<>>]
            /\ rd' = Detach(SessionFile(sess[p].session_id))
            /\ AfterDelete(p)
       ELSE /\ UNCHANGED <<files, rd, before>>
            /\ Return(p, op[p], "OSError", "OSError", TRUE)
    /\ UNCHANGED <<engine, nextId, table, sess, loaded, args, rpos, tmp, found>>

\* ------------------------------------------------------------------------
\* MySQLSession: one table
\* ------------------------------------------------------------------------
\* an insert that is no upsert
Upsert_plain_insert(rows, row) == rows \cup {row}

\* insert ... on duplicate key update, session_id being the primary key
Upsert(rows, row) ==
    {r \in rows : r.session_id # row.session_id} \cup {row}

NoFiles == UNCHANGED <<engine, nextId, files, args, rd, rpos, tmp, found>>

\* save: show tables like 'tornado_sessions'
MySQLSession_save_show(p) ==
    /\ pc[p] = "ms_show"
    /\ IF table.exists THEN Goto(p, "ms_upsert") ELSE Goto(p, "ms_create")
    /\ UNCHANGED <<table, sess, loaded, before>>
    /\ NoFiles

\* save: create table tornado_sessions; an error when it is there by now
MySQLSession_save_create(p) ==
    /\ pc[p] = "ms_create"
    /\ IF ~table.exists
       THEN /\ table' = [table EXCEPT !.exists = TRUE]
            /\ Goto(p, "ms_upsert")
            /\ UNCHANGED sess
       ELSE /\ UNCHANGED table
            /\ sess' = [sess EXCEPT ![p] = IF op[p] = "create" THEN NoSession ELSE @]
            /\ Return(p, op[p], "OperationalError", "OperationalError", TRUE)
    /\ UNCHANGED <<loaded, before>>
    /\ NoFiles

\* save: the upsert, self.dirty = False
MySQLSession_save_upsert(p) ==
    /\ pc[p] = "ms_upsert"
    /\ table.exists
    /\ table' = [table EXCEPT !.rows = Upsert(@, SqlRow(sess[p]))]
    /\ sess' = [sess EXCEPT ![p] = Saved(@)]
    /\ AfterSave(p)
    /\ UNCHANGED loaded
    /\ NoFiles

\* load: the select; None when there is no table (ProgrammingError is
\* caught) or no row, the entity the row decodes to otherwise; what
\* deserialize raises is not caught
MySQLSession_load_select(p) ==
    /\ pc[p] = "ml_select"
    /\ LET data == {r \in table.rows : r.session_id = args[p].session_id}
       IN  IF ~table.exists
           THEN /\ UNCHANGED loaded
                /\ Return(p, "load", "None", "ProgrammingError", TRUE)
           ELSE IF data = {}
           THEN /\ UNCHANGED loaded
                /\ Return(p, "load", "None", "", TRUE)
           ELSE LET row == CHOOSE r \in data : TRUE
                IN  IF Decodes(row.data)
                    THEN /\ loaded' = [loaded EXCEPT ![p] = Rehydrate(deserialize(row.data))]
                         /\ Return(p, "load", "session", "", TRUE)
                    ELSE /\ UNCHANGED loaded
                         /\ Return(p, "load", "DecodeError", "DecodeError", TRUE)
    /\ UNCHANGED <<table, sess, before>>
    /\ NoFiles

\* delete: delete from tornado_sessions where session_id = ...
MySQLSession_delete(p) ==
    /\ pc[p] = "md_delete"
    /\ table.exists
    /\ table' = [table EXCEPT !.rows = {r \in @ : r.session_id # sess[p].session_id}]
    /\ AfterDelete(p)
    /\ UNCHANGED <<sess, loaded>>
    /\ NoFiles

\* ------------------------------------------------------------------------
\* Failures of the file system and of the database
\* ------------------------------------------------------------------------
IOPoints == {"fs_open", "fs_loop", "fs_rename", "fl_open", "fl_loop",
             "fd_open", "fd_loop", "ds_mkstemp", "ds_write", "ds_rename",
             "dl_open", "dl_read", "dd_remove",
             "ms_show", "ms_create", "ms_upsert", "ml_select", "md_delete"}

\* the exception a failing storage access raises
IOFailure == IF engine = "mysql" THEN "OperationalError" ELSE "IOError"

\* a storage access fails: load of FileSession and of DirSession catches
\* whatever is raised and returns None, every other call lets it through;
\* a constructor that raises leaves no entity. The temporary file stays
\* behind under a name nothing uses again.
Raise(p) ==
    /\ pc[p] \in IOPoints
    /\ Closed(p, rd)
    /\ files' = IF tmp[p] \in {TempFile(q) : q \in Procs}
                THEN [files EXCEPT ![tmp[p]] = <<>>] ELSE files
    /\ IF op[p] = "load" /\ engine \in {"file", "dir"}
       THEN Return(p, "load", "None", IOFailure, TRUE)
       ELSE Return(p, op[p], IOFailure, IOFailure, TRUE)
    /\ sess' = [sess EXCEPT ![p] = IF op[p] = "create" THEN NoSession ELSE @]
    /\ UNCHANGED <<engine, table, nextId, loaded, args, before>>

\* ------------------------------------------------------------------------
\* Specifications
\* ------------------------------------------------------------------------
Engines == {"file", "dir", "mysql"}

\* the storage before the application starts: empty, or with a record that
\* something else left there
InitStorage ==
    \/ /\ engine = "file"
       /\ \E rows \in {<<>>, <<ForeignRow>>} :
              files = [name \in Names |-> IF name = FilePath THEN <<rows>> ELSE <<>>]
       /\ table = [exists |-> FALSE, rows |-> {}]
    \/ /\ engine = "dir"
       /\ \E content \in {<<>>, << <<ForeignRow>> >>} :
              files = [name \in Names |->
                          IF name = SessionFile(ForeignId) THEN content ELSE <<>>]
       /\ table = [exists |-> FALSE, rows |-> {}]
    \/ /\ engine = "mysql"
       /\ files = [name \in Names |-> <<>>]
       /\ table \in {[exists |-> FALSE, rows |-> {}],
                     [exists |-> TRUE, rows |-> {ForeignSqlRow}]}

InitHandlers ==
    /\ nextId = 1
    /\ sess = [p \in Procs |-> NoSession]
    /\ loaded = [p \in Procs |-> NoSession]
    /\ op = [p \in Procs |-> "idle"]
    /\ pc = [p \in Procs |-> "idle"]
    /\ args = [p \in Procs |-> NoArgs]
    /\ rd = [p \in Procs |-> NoReader]
    /\ rpos = [p \in Procs |-> 1]
    /\ tmp = [p \in Procs |-> ""]
    /\ found = [p \in Procs |-> FALSE]
    /\ ret = [p \in Procs |-> Outcome("", "")]
    /\ last = [p \in Procs |-> ""]
    /\ since = [p \in Procs |-> "other"]
    /\ before = [p \in Procs |-> <<>>]

Init == InitStorage /\ InitHandlers

\* one handler, its calls one after the other, on any of the engines
Main == "h1"

Next ==
    \/ \E age \in ToTimes, ip \in IpAddresses, ua \in UserAgents, now \in Clock :
           Create(Main, age, ip, ua, now)
    \/ \E key \in Keys, value \in Vals : __setitem__(Main, key, value)
    \/ \E key \in Keys : __delitem__(Main, key)
    \/ \E key \in Keys : __getitem__(Main, key)
    \/ keys(Main)
    \/ __iter__(Main)
    \/ __len__(Main)
    \/ save(Main)
    \/ delete(Main)
    \/ \E session_id \in Cookies : load(Main, session_id)
    \/ Adopt(Main)
    \/ invalidate(Main)
    \/ invalidate_cookie(Main)
    \/ \E to_time \in ToTimes, new_session_id \in BOOLEAN, save_ \in BOOLEAN,
          now \in Clock : refresh(Main, to_time, new_session_id, save_, now)
    \/ refresh_generate(Main)
    \/ refresh_cookie(Main)
    \/ FileSession_save_open(Main)
    \/ FileSession_save_loop(Main)
    \/ FileSession_save_append(Main)
    \/ FileSession_save_rename(Main)
    \/ FileSession_load_open(Main)
    \/ FileSession_load_loop(Main)
    \/ FileSession_load_miss(Main)
    \/ FileSession_delete_open(Main)
    \/ FileSession_delete_loop(Main)
    \/ FileSession_delete_rename(Main)
    \/ DirSession_save_mkstemp(Main)
    \/ DirSession_save_write(Main)
    \/ DirSession_save_rename(Main)
    \/ DirSession_load_isfile(Main)
    \/ DirSession_load_open(Main)
    \/ DirSession_load_read(Main)
    \/ DirSession_delete_isfile(Main)
    \/ DirSession_delete_remove(Main)
    \/ MySQLSession_save_show(Main)
    \/ MySQLSession_save_create(Main)
    \/ MySQLSession_save_upsert(Main)
    \/ MySQLSession_load_select(Main)
    \/ MySQLSession_delete(Main)
    \/ Raise(Main)

Spec == Init /\ [][Next]_vars

\* two request handlers on the shared file of FileSession, their steps
\* interleaved
InitConc ==
    /\ engine = "file"
    /\ \E rows \in {<<>>, <<ForeignRow>>} :
           files = [name \in Names |-> IF name = FilePath THEN <<rows>> ELSE <<>>]
    /\ table = [exists |-> FALSE, rows |-> {}]
    /\ InitHandlers

\* h1 opens a session; h2 loads it from the cookie of a second request and
\* goes on with the entity it got; both change, save and delete
NextConc ==
    \/ \E ip \in IpAddresses, ua \in UserAgents : Create("h1", PyNone, ip, ua, 0)
    \/ \E session_id \in Cookies : load("h2", session_id)
    \/ Adopt("h2")
    \/ \E p \in Procs :
        \/ \E key \in Keys, value \in Vals : __setitem__(p, key, value)
        \/ save(p)
        \/ delete(p)
        \/ FileSession_save_open(p)
        \/ FileSession_save_loop(p)
        \/ FileSession_save_append(p)
        \/ FileSession_save_rename(p)
        \/ FileSession_load_open(p)
        \/ FileSession_load_loop(p)
        \/ FileSession_load_miss(p)
        \/ FileSession_delete_open(p)
        \/ FileSession_delete_loop(p)
        \/ FileSession_delete_rename(p)

SpecConc == InitConc /\ [][NextConc]_vars

\* ------------------------------------------------------------------------
\* Properties
\* ------------------------------------------------------------------------
\* a load that no failure of the file system cut short
LoadRan(p) == Idle(p) /\ last[p] = "load" /\ ret[p].exc # "IOError"

\* C1: FileSession and DirSession, under Spec: when a load of the entity's
\* own identifier follows its save with nothing but reads and loads in
\* between, load returns an entity whose session_id, data, expires,
\* ip_address and user_agent are those of the saved entity.
C1_SaveThenLoad ==
    \A p \in Procs :
        (/\ engine \in {"file", "dir"}
         /\ LoadRan(p)
         /\ since[p] \in {"saved_io", "saved_again"}
         /\ args[p].session_id = sess[p].session_id)
        => /\ ret[p].kind = "session"
           /\ loaded[p].session_id = sess[p].session_id
           /\ loaded[p].data = sess[p].data
           /\ loaded[p].expires = sess[p].expires
           /\ loaded[p].ip_address = sess[p].ip_address
           /\ loaded[p].user_agent = sess[p].user_agent

\* a session with a key in its dictionary was saved to the shared file and
\* loaded back
C1_Witness ==
    \E p \in Procs :
        /\ engine = "file"
        /\ LoadRan(p)
        /\ since[p] = "saved_io"
        /\ args[p].session_id = sess[p].session_id
        /\ sess[p].data # EmptyDict
        /\ loaded[p].data = sess[p].data

\* the step in which handler p calls save()
SaveCalled(p) ==
    /\ Idle(p)
    /\ \/ op'[p] = "save"
       \/ op'[p] = "idle" /\ last'[p] = "save"

\* C2: in every engine, a save() of an entity that was saved and not changed
\* since returns at once and leaves the storage as it is; a save() of an
\* entity that a set or a delete of a key changed since goes to the storage.
C2_SaveIdempotent ==
    [][\A p \in Procs :
          SaveCalled(p) =>
              /\ since[p] \in {"saved_io", "saved_again"} =>
                     /\ op'[p] = "idle"
                     /\ ret'[p] = Outcome("ok", "")
                     /\ UNCHANGED <<files, table>>
              /\ since[p] = "mutated" =>
                     /\ op'[p] = "save"
                     /\ pc'[p] = SaveEntry]_vars

\* a second save() in a row has returned
C2_Witness ==
    \E p \in Procs :
        /\ Idle(p)
        /\ last[p] = "save"
        /\ since[p] = "saved_again"
        /\ Records(sess[p].session_id) # {}

\* the steps of save() and of FileSession.delete() up to the rename
BeforeRename ==
    {"fs_open", "fs_loop", "fs_rename", "fd_open", "fd_loop",
     "ds_mkstemp", "ds_write", "ds_rename"}

\* a call that went to the storage was cut short by a failure
Interrupted(p) ==
    /\ Idle(p)
    /\ last[p] \in {"create", "save", "delete", "refresh", "invalidate"}
    /\ ret[p].kind = "IOError"

\* C3: FileSession and DirSession, under Spec: at every step of save() (and
\* of FileSession.delete()) before the rename, and after a failure cut the
\* call short, the session file holds what it held when the call began.
C3_IntactBeforeRename ==
    \A p \in Procs :
        (/\ engine \in {"file", "dir"}
         /\ pc[p] \in BeforeRename \/ Interrupted(p))
        => Canonical(sess[p]) = before[p]

\* a save() that would have changed a session file with rows in it was cut
\* short
C3_Witness ==
    \E p \in Procs :
        /\ engine = "file"
        /\ Interrupted(p)
        /\ last[p] = "save"
        /\ RowsOf(FilePath) # <<>>
        /\ Records(sess[p].session_id) # {Row(sess[p])}

\* handler p has the session file open in load()
Reading(p) == op[p] = "load" /\ rd[p] # NoReader

\* handler q is at the rename of its save() or of its delete()
Finishing(q) ==
    \/ pc[q] = "fs_rename"
    \/ pc[q] = "fd_loop" /\ rpos[q] > Len(Lines(q))

\* C4: FileSession, under SpecConc: the rows a load() reads do not change
\* from its open to its end whatever save() and delete() do meanwhile, and
\* the session file changes only in the rename that ends a save() or a
\* delete(), to all the rows that call wrote.
C4_ReaderSeesWholeFile ==
    /\ [][\A p \in Procs : Reading(p) /\ Reading(p)' => Lines(p)' = Lines(p)]_vars
    /\ [][files'[FilePath] # files[FilePath] =>
             \E q \in Procs : Finishing(q) /\ files'[FilePath] = files[tmp[q]]]_vars

\* a load() goes on reading the rows of before a rename
C4_Witness ==
    \E p \in Procs :
        /\ Reading(p)
        /\ ~rd[p].live
        /\ rd[p].rows # RowsOf(FilePath)

\* the decoded record equals the entity in data and expires
SameAsStored(r, s) ==
    /\ Decodes(r.data)
    /\ deserialize(r.data).data = s.data
    /\ deserialize(r.data).expires = s.expires

\* C5: under Spec, between the calls of a handler: an entity that is not
\* dirty has a record under its identifier, with its data and its expires.
C5_CleanMeansStored ==
    \A p \in Procs :
        (Idle(p) /\ HasSession(p) /\ ~sess[p].dirty)
        => \E r \in Records(sess[p].session_id) : SameAsStored(r, sess[p])

\* C6: dirty is false when a save() has returned and in the entity a load()
\* returns, true when a set or a delete of a key has returned without an
\* exception; __getitem__, keys, __iter__ and __len__ leave dirty as it is.
C6_DirtyFlag ==
    /\ [](\A p \in Procs :
             Idle(p) =>
                 /\ last[p] = "save" /\ ret[p].kind = "ok" => ~sess[p].dirty
                 /\ last[p] = "load" /\ ret[p].kind = "session" => ~loaded[p].dirty
                 /\ last[p] \in {"__setitem__", "__delitem__"} /\ ret[p].kind = "ok"
                        => sess[p].dirty)
    /\ [][\A p \in Procs :
             Idle(p) /\ Idle(p)' /\ last'[p] \in ReadCalls
                 => sess'[p].dirty = sess[p].dirty]_vars

\* a load() has returned the stored entity, not dirty, to a handler whose
\* own copy is dirty
C6_Witness ==
    \E p \in Procs :
        /\ Idle(p)
        /\ last[p] = "load"
        /\ ret[p].kind = "session"
        /\ loaded[p].session_id = sess[p].session_id
        /\ sess[p].dirty
        /\ ~loaded[p].dirty

\* C7: under Spec, between the calls of a handler: once invalidate() has
\* returned for an entity, there is no record under its identifier.
C7_InvalidatedIsTerminal ==
    \A p \in Procs :
        (Idle(p) /\ sess[p]._delete_cookie)
        => Records(sess[p].session_id) = {}

\* handler p is in, or has returned from, a refresh() with new_session_id
Rotating(p) == op[p] = "refresh" /\ args[p].new_session_id
Rotated(p) ==
    /\ Idle(p)
    /\ last[p] = "refresh"
    /\ ret[p].kind = "ok"
    /\ args[p].new_session_id

\* C8: under Spec: in a refresh() with new_session_id the record of the old
\* identifier is gone before the entity has the new one, and at no step
\* are there records of both; when it has returned there is no record of
\* the old identifier, the record of the new one is that of the entity,
\* which is not dirty, and _refresh_cookie is set.
C8_RotationFailClosed ==
    \A p \in Procs :
        /\ Rotating(p) =>
               /\ sess[p].session_id = args[p].session_id
                      => Records(args[p].old_session_id) = {}
               /\ Records(args[p].session_id) # {}
                      => Records(args[p].old_session_id) = {}
        /\ Rotated(p) =>
               /\ args[p].session_id # args[p].old_session_id
               /\ sess[p].session_id = args[p].session_id
               /\ Records(args[p].old_session_id) = {}
               /\ \E r \in Records(sess[p].session_id) : SameAsStored(r, sess[p])
               /\ ~sess[p].dirty
               /\ sess[p]._refresh_cookie

\* a refresh() with new_session_id has returned on the shared file, which
\* has other rows
C8_Witness ==
    \E p \in Procs :
        /\ engine = "file"
        /\ Rotated(p)
        /\ Len(RowsOf(FilePath)) > 1

\* C9: under Spec, in every engine: a load() of an identifier that has no
\* record, or whose record does not decode, returns None.
C9_LoadReturnsNone ==
    \A p \in Procs :
        (/\ Idle(p)
         /\ last[p] = "load"
         /\ ret[p].exc \notin {"IOError", "OperationalError"}
         /\ \/ Records(args[p].session_id) = {}
            \/ \E r \in Records(args[p].session_id) : ~Decodes(r.data))
        => ret[p].kind = "None"

\* C10: under Spec, in every engine: a save(), load() or delete() in which
\* an access to the file system or to the database failed raises.
C10_FailureIsRaised ==
    \A p \in Procs :
        (/\ Idle(p)
         /\ last[p] \in {"save", "load", "delete"}
         /\ ret[p].exc \in {"IOError", "OperationalError"})
        => ret[p].kind = ret[p].exc

\* C11: MySQLSession, under Spec: the table never holds two rows of one
\* identifier, and when a save() that went to the table has returned, the
\* one row of the entity's identifier carries the values of the entity.
C11_SaveIsUpsert ==
    engine = "mysql" =>
        /\ \A session_id \in AllIds : Cardinality(Records(session_id)) <= 1
        /\ \A p \in Procs :
               (Idle(p) /\ last[p] = "save" /\ since[p] = "saved_io")
               => Records(sess[p].session_id) = {SqlRow(sess[p])}

\* a session the constructor had saved was changed and saved again
C11_Witness ==
    \E p \in Procs :
        /\ engine = "mysql"
        /\ Idle(p)
        /\ last[p] = "save"
        /\ since[p] = "saved_io"
        /\ sess[p].data # EmptyDict
        /\ Records(sess[p].session_id) = {SqlRow(sess[p])}

\* C12: FileSession, under SpecConc: whatever the handlers save and delete,
\* and however their steps interleave, no two rows of the session file have
\* the same identifier.
C12_OneRowPerIdentifier ==
    \A i, j \in 1..Len(RowsOf(FilePath)) :
        i # j => RowsOf(FilePath)[i].session_id # RowsOf(FilePath)[j].session_id

\* two entities with one identifier and different data have both been saved
C12_Witness ==
    /\ sess["h1"].session_id = sess["h2"].session_id
    /\ HasSession("h1")
    /\ \A p \in Procs : Idle(p) /\ since[p] = "saved_io"
    /\ last["h2"] = "save"
    /\ sess["h1"].data # sess["h2"].data
    /\ Records(sess["h1"].session_id) # {}

\* ------------------------------------------------------------------------
\* The ages a session is made and refreshed with
\* ------------------------------------------------------------------------
\* None, an int, a numeric and a non-numeric string, a datetime, a
\* timedelta, a function that returns a time and one that returns None, and
\* a value of another type
Ages ==
    {PyNone, PyInt(60), PyStr("60"), PyStr("sixty"), PyDatetime(1000),
     PyTimedelta(60), PyFunction(PyInt(1000)), PyFunction(PyNone), PyFloat}

\* the constructor called with a session_id, as load calls it, and with or
\* without expires: no save()
Construct(p, session_id, expires) ==
    /\ Idle(p) /\ ~HasSession(p)
    /\ sess' = [sess EXCEPT ![p] =
                  __init__(Kwargs(TRUE, session_id, EmptyDict, expires, PyNone, PyNone),
                           _generate_session_id, 0)]
    /\ Return(p, "construct", "ok", "", FALSE)
    /\ NewCall(p) /\ NoStorage

\* one handler on DirSession, with every kind of age
InitExpiry ==
    /\ engine = "dir"
    /\ files = [name \in Names |-> <<>>]
    /\ table = [exists |-> FALSE, rows |-> {}]
    /\ InitHandlers

NextExpiry ==
    \/ \E age \in Ages, ip \in IpAddresses, ua \in UserAgents, now \in Clock :
           Create(Main, age, ip, ua, now)
    \/ \E expires \in {PyNone, PyInt(DefaultAge)} : Construct(Main, ForeignId, expires)
    \/ \E to_time \in Ages, new_session_id \in BOOLEAN, save_ \in BOOLEAN,
          now \in Clock : refresh(Main, to_time, new_session_id, save_, now)
    \/ refresh_generate(Main)
    \/ refresh_cookie(Main)
    \/ \E session_id \in Cookies : load(Main, session_id)
    \/ Adopt(Main)
    \/ DirSession_save_mkstemp(Main)
    \/ DirSession_save_write(Main)
    \/ DirSession_save_rename(Main)
    \/ DirSession_load_isfile(Main)
    \/ DirSession_load_open(Main)
    \/ DirSession_load_read(Main)
    \/ DirSession_delete_isfile(Main)
    \/ DirSession_delete_remove(Main)

SpecExpiry == InitExpiry /\ [][NextExpiry]_vars

\* C13: under SpecExpiry: whatever the age, the constructor and refresh()
\* do not raise ValueError, and an age that is no int, string, datetime,
\* timedelta or function gives now plus 900 seconds.
C13_ExpiryIsTotal ==
    /\ \A p \in Procs :
           (Idle(p) /\ last[p] \in {"create", "refresh"}) => ret[p].kind # "ValueError"
    /\ \A now \in Clock : _value_to_epoch_time(PyFloat, now) = PyInt(now + DefaultAge)

\* C14: under SpecExpiry, between the calls of a handler: the expires of
\* its entity, however it was made and after every refresh(), is an integer.
C14_ExpiresIsATime ==
    \A p \in Procs : (Idle(p) /\ HasSession(p)) => sess[p].expires.t = "int"

\* the record save() writes for the entity
Stored(s) == IF engine = "mysql" THEN SqlRow(s) ELSE Row(s)

\* C15: under Spec, in every engine: when the constructor of a fresh
\* session goes to save(), the entity has an identifier with no record,
\* empty data and dirty true; when the constructor has returned, the record
\* of the identifier is that of the entity and dirty is false; a load()
\* writes nothing to the storage and the entity it returns is not dirty.
C15_Construction ==
    /\ [](\A p \in Procs :
             /\ (op[p] = "create" /\ pc[p] = SaveEntry) =>
                    /\ sess[p].dirty
                    /\ sess[p].data = EmptyDict
                    /\ Records(sess[p].session_id) = {}
             /\ (Idle(p) /\ last[p] = "create" /\ ret[p].kind = "ok") =>
                    /\ ~sess[p].dirty
                    /\ sess[p].data = EmptyDict
                    /\ Records(sess[p].session_id) = {Stored(sess[p])}
             /\ (Idle(p) /\ last[p] = "load" /\ ret[p].kind = "session") =>
                    ~loaded[p].dirty)
    /\ [][\A p \in Procs : op[p] = "load" => UNCHANGED <<files, table>>]_vars

\* the constructor of a fresh session has returned, in a storage that had
\* a record of another identifier
C15_Witness ==
    \E p \in Procs :
        /\ Idle(p)
        /\ last[p] = "create"
        /\ ret[p].kind = "ok"
        /\ Records(sess[p].session_id) = {Stored(sess[p])}
        /\ Records(ForeignId) # {}

\* rows with the row of the identifier replaced by row, or with row at the
\* end when the identifier has none
Replaced(rows, row) ==
    IF \E i \in 1..Len(rows) : rows[i].session_id = row.session_id
    THEN [i \in 1..Len(rows) |->
             IF rows[i].session_id = row.session_id THEN row ELSE rows[i]]
    ELSE Append(rows, row)

\* rows without the rows of the identifier, the others in their order
RECURSIVE Removed(_, _)
Removed(rows, session_id) ==
    IF rows = <<>> THEN <<>>
    ELSE IF Head(rows).session_id = session_id
         THEN Removed(Tail(rows), session_id)
         ELSE <<Head(rows)>> \o Removed(Tail(rows), session_id)

\* the step of handler p is the rename that ends its save(), its delete()
SaveRenamed(p) ==
    pc[p] = "fs_rename" /\ pc'[p] # "fs_rename" /\ ret'[p].kind # "IOError"
DeleteRenamed(p) ==
    /\ pc[p] = "fd_loop" /\ rpos[p] > Len(Lines(p))
    /\ pc'[p] # "fd_loop" /\ ret'[p].kind # "IOError"

InitTwo ==
    /\ engine = "file"
    /\ files = [name \in Names |-> IF name = FilePath THEN << <<>> >> ELSE <<>>]
    /\ table = [exists |-> FALSE, rows |-> {}]
    /\ InitHandlers

NextTwo ==
    \E p \in Procs :
        \/ \E ip \in IpAddresses, ua \in UserAgents : Create(p, PyNone, ip, ua, 0)
        \/ \E key \in Keys, value \in Vals : __setitem__(p, key, value)
        \/ save(p)
        \/ delete(p)
        \/ FileSession_save_open(p)
        \/ FileSession_save_loop(p)
        \/ FileSession_save_append(p)
        \/ FileSession_save_rename(p)
        \/ FileSession_delete_open(p)
        \/ FileSession_delete_loop(p)
        \/ FileSession_delete_rename(p)

SpecTwo == InitTwo /\ [][NextTwo]_vars

\* the rows of an identifier among rows
RowsWith(rows, session_id) ==
    {rows[i] : i \in {j \in 1..Len(rows) : rows[j].session_id = session_id}}

\* both handlers have saved sessions of different identifiers, and the
\* session file has no row of one of them
LostUpdate ==
    /\ \A p \in Procs :
           /\ Idle(p) /\ HasSession(p)
           /\ last[p] \in {"create", "save"}
           /\ ret[p].kind = "ok"
           /\ ~sess[p].dirty
    /\ sess["h1"].session_id # sess["h2"].session_id
    /\ \E p \in Procs : Records(sess[p].session_id) = {}

C18_DeletedStaysDeleted ==
    \A p \in Procs :
        (Idle(p) /\ last[p] = "delete" /\ ret[p].kind = "ok")
        => Records(sess[p].session_id) = {}

\* the steps of save() of the three engines, and the step that commits
SavePoints == {"fs_open", "fs_loop", "fs_rename", "ds_mkstemp", "ds_write",
               "ds_rename", "ms_show", "ms_create", "ms_upsert"}
CommitPoints == {"fs_rename", "ds_rename", "ms_upsert"}
Failures == {"IOError", "OperationalError"}

\* save() of handler p raised, the entity still there
SaveFailed(p) ==
    Idle(p) /\ last[p] = "save" /\ ret[p].kind \in Failures /\ HasSession(p)

\* C19: at every step of a save() the entity is dirty; a step of a save()
\* that raises leaves it dirty, and the save() called next goes to the
\* storage again; the only step of a save() after which the entity is not
\* dirty is the commit step (the rename of FileSession and of DirSession,
\* the upsert of MySQLSession) when it succeeds, the record of the entity
\* being stored by then.
C19_DirtyUntilCommitted ==
    [][\A p \in Procs :
          /\ (pc[p] \in SavePoints /\ sess'[p] # NoSession) =>
                /\ sess[p].dirty
                /\ ret'[p].kind \in Failures => sess'[p].dirty
                /\ ~sess'[p].dirty =>
                      /\ pc[p] \in CommitPoints
                      /\ ret'[p].kind \notin Failures
                      /\ Records(sess[p].session_id)' # {}
          /\ (SaveFailed(p) /\ op'[p] = "save") => pc'[p] = SaveEntry]_vars

\* a save() raised before its commit and left the entity dirty
C19_Witness ==
    \E p \in Procs : SaveFailed(p) /\ sess[p].dirty /\ DOMAIN sess[p].data # {}

\* two request handlers and a rotation of the identifier, on any of the
\* engines: h1 opens a session and refreshes it with a new identifier; h2
\* loads the session from the cookie of a second request, goes on with the
\* entity it got, changes it and saves it
InitRotate == InitStorage /\ InitHandlers

NextRotate ==
    \/ \E ip \in IpAddresses, ua \in UserAgents : Create("h1", PyNone, ip, ua, 0)
    \/ \E save_ \in BOOLEAN : refresh("h1", PyNone, TRUE, save_, 0)
    \/ refresh_generate("h1")
    \/ refresh_cookie("h1")
    \/ \E session_id \in Cookies : load("h2", session_id)
    \/ Adopt("h2")
    \/ \E key \in Keys, value \in Vals : __setitem__("h2", key, value)
    \/ save("h2")
    \/ \E p \in Procs :
        \/ FileSession_save_open(p)
        \/ FileSession_save_loop(p)
        \/ FileSession_save_append(p)
        \/ FileSession_save_rename(p)
        \/ FileSession_load_open(p)
        \/ FileSession_load_loop(p)
        \/ FileSession_load_miss(p)
        \/ FileSession_delete_open(p)
        \/ FileSession_delete_loop(p)
        \/ FileSession_delete_rename(p)
        \/ DirSession_save_mkstemp(p)
        \/ DirSession_save_write(p)
        \/ DirSession_save_rename(p)
        \/ DirSession_load_isfile(p)
        \/ DirSession_load_open(p)
        \/ DirSession_load_read(p)
        \/ DirSession_delete_isfile(p)
        \/ DirSession_delete_remove(p)
        \/ MySQLSession_save_show(p)
        \/ MySQLSession_save_create(p)
        \/ MySQLSession_save_upsert(p)
        \/ MySQLSession_load_select(p)
        \/ MySQLSession_delete(p)

SpecRotate == InitRotate /\ [][NextRotate]_vars

\* C20: under SpecRotate, once refresh() with new_session_id has returned
\* for an entity, there is no record under the identifier the entity had
\* before, whatever another handler does with an entity it loaded under
\* that identifier.
C20_OldIdentifierStaysGone ==
    \A p \in Procs :
        Rotated(p) => Records(args[p].old_session_id) = {}

\* two request handlers on the directory of DirSession, each with a session
\* of its own: it opens it, changes it, saves it, loads it by its
\* identifier and deletes it, the steps of the two interleaved
InitDir ==
    /\ engine = "dir"
    /\ \E content \in {<<>>, << <<ForeignRow>> >>} :
           files = [name \in Names |->
                       IF name = SessionFile(ForeignId) THEN content ELSE <<>>]
    /\ table = [exists |-> FALSE, rows |-> {}]
    /\ InitHandlers

NextDir ==
    \E p \in Procs :
        \/ \E ip \in IpAddresses, ua \in UserAgents : Create(p, PyNone, ip, ua, 0)
        \/ \E key \in Keys, value \in Vals : __setitem__(p, key, value)
        \/ save(p)
        \/ delete(p)
        \/ HasSession(p) /\ load(p, sess[p].session_id)
        \/ DirSession_save_mkstemp(p)
        \/ DirSession_save_write(p)
        \/ DirSession_save_rename(p)
        \/ DirSession_load_isfile(p)
        \/ DirSession_load_open(p)
        \/ DirSession_load_read(p)
        \/ DirSession_delete_isfile(p)
        \/ DirSession_delete_remove(p)

SpecDir == InitDir /\ [][NextDir]_vars

\* the session file of handler p
OwnFile(p) == SessionFile(sess[p].session_id)

\* the session file of handler p is as the calls of p alone leave it: with
\* the row of the last save, absent after a delete, and what a load
\* returned is what the file holds
AsIfAlone(p) ==
    /\ since[p] \in {"saved_io", "saved_again"} =>
           files[OwnFile(p)] = << <<Row(sess[p])>> >>
    /\ (last[p] = "delete" /\ ret[p].kind = "ok") => files[OwnFile(p)] = <<>>
    /\ last[p] = "load" =>
           IF files[OwnFile(p)] = <<>> THEN ret[p].kind = "None"
           ELSE /\ ret[p].kind = "session"
                /\ loaded[p] = Rehydrate(deserialize(RowsOf(OwnFile(p))[1].data))
    /\ ret[p].exc \notin {"OSError", "IOError", "StopIteration", "DecodeError"}

\* the step changes the session file of the identifier: it is the rename of
\* a save() or the remove of a delete() of the handler that holds it
OwnCommit(session_id) ==
    \E p \in Procs :
        /\ sess[p].session_id = session_id
        /\ pc'[p] # pc[p]
        /\ \/ /\ pc[p] = "ds_rename"
              /\ files'[SessionFile(session_id)] = << <<Row(sess[p])>> >>
           \/ /\ pc[p] = "dd_remove"
              /\ files'[SessionFile(session_id)] = <<>>

\* C21: DirSession, under SpecDir, two handlers with different identifiers,
\* their save(), load() and delete() interleaved in every way: the session
\* file of an identifier changes only at the commit step of a call of the
\* handler that holds it, to what that call alone makes of it, and between
\* the calls of a handler its session file is what its own calls alone
\* leave (the row of its last save, or absent after its delete).
C21_NoInterference ==
    /\ [](\A p \in Procs : (Idle(p) /\ HasSession(p)) => AsIfAlone(p))
    /\ [][\A session_id \in AllIds \cup {ForeignId} :
             files'[SessionFile(session_id)] # files[SessionFile(session_id)]
             => OwnCommit(session_id)]_vars

\* both handlers have saved while the other was in a call, and both files
\* are there with different rows
C21_Witness ==
    /\ \A p \in Procs : Idle(p) /\ HasSession(p) /\ since[p] = "saved_io"
    /\ last["h1"] = "save" /\ last["h2"] = "load"
    /\ DOMAIN sess["h1"].data # DOMAIN sess["h2"].data
    /\ files[OwnFile("h1")] # files[OwnFile("h2")]

====
